---- MODULE Spec2Model ----
(***************************************************************************)
(* Model of app.py: the refresh pipeline fetch_and_cache_movies, the       *)
(* process-wide cache all_movies_cache, the catalog endpoint and the       *)
(* refresh trigger.  Every run of the pipeline is a thread; threads are    *)
(* interleaved at each remote request, at each iteration of the            *)
(* deduplication loop and at each statement that touches the shared cache. *)
(***************************************************************************)
EXTENDS Integers, Sequences, FiniteSets, TLC

VARIABLES
    lim,              \* the bounds in force in this behaviour
    all_movies_cache, \* the global of line 17: a reference to a list object
                      \* (0: the initial list, r: unique_movies of run r)
    run,              \* per thread: its position and the locals of
                      \* fetch_and_cache_movies
    writes,           \* history: runs in the order of their cache assignment
    finished,         \* history: runs in the order of their return
    alive,            \* history: per run, the runs in progress at its start
    acks,             \* history: acknowledgments the refresh trigger has returned
    cat               \* the catalog request in progress: position, the list
                      \* it iterates over, the metas built so far

vars == <<lim, all_movies_cache, run, writes, finished, alive, acks, cat>>

(***************************************************************************)
(* Bounds.                                                                 *)
(***************************************************************************)
\* pages of the loop of line 27 (range(1, 301) in the program)
LastPage == 3
\* candidates the remote returns to one run, over all its pages
MaxCandidates == 3
\* the same two bounds and the number of threads where runs overlap
ConcLastPage == 1
ConcCandidates == 1
ConcRuns == 2
\* the same two bounds where every response of a run is remembered
FlowLastPage == 2
FlowCandidates == 2

\* line 27: range(1, 301), the last page a run asks for
PageCap == 300

Runs == 1 .. lim.runs

(***************************************************************************)
(* Data: candidates of the discover query and the remote's responses.      *)
(* A field that is absent, None or empty is falsy in Python: id 0,         *)
(* title "", imdb_id <<>> stand for all three.                             *)
(***************************************************************************)
Movie(isdict, id, title, poster, backdrop, overview, date) ==
    [isdict |-> isdict, id |-> id, title |-> title, poster_path |-> poster,
     backdrop_path |-> backdrop, overview |-> overview, release_date |-> date,
     imdb_id |-> <<>>]

MovieA == Movie(TRUE, 10, "Title A", "/a.jpg", "/ab.jpg", "about A", "2024-01-02")
MovieB == Movie(TRUE, 20, "Title B", "", "", "", "2023-05-06")
NoTitle == Movie(TRUE, 30, "", "/c.jpg", "", "about C", "")
NoId == Movie(TRUE, 0, "Title D", "", "", "", "")
\* an element of "results" that is no JSON object (null, a number, a string)
NotADict == Movie(FALSE, 0, "", "", "", "", "")

Candidates ==
    IF lim.rich THEN {MovieA, MovieB, NoTitle, NoId, NotADict} ELSE {MovieA}

SeqsUpTo(S, n) == UNION {[1 .. k -> S] : k \in 0 .. n}

\* The outcome of requests.get(...) followed by .json()
Failure(kind) == [kind |-> kind, results |-> <<>>]
DiscoverResponses(r) ==
    IF lim.cap
    THEN {Failure("Timeout"), [kind |-> "ok", results |-> <<>>],
          [kind |-> "ok", results |-> <<MovieA>>]}
    ELSE
    (IF lim.rich
     THEN {Failure("Timeout"), Failure("ConnectionError"), Failure("NotADict")}
     ELSE {Failure("Timeout")})
    \cup {[kind |-> "ok", results |-> s] :
            s \in SeqsUpTo(Candidates, lim.candidates - run[r].served)}

Prov(kind, shape, keys) == [kind |-> kind, shape |-> shape, keys |-> keys]
ProviderResponses ==
    IF lim.hist
    THEN {Prov("Timeout", "none", {}), Prov("ConnectionError", "none", {}),
          Prov("ok", "null", {}), Prov("ok", "noIN", {}),
          Prov("ok", "IN", {}), Prov("ok", "IN", {"ads"}),
          Prov("ok", "IN", {"rent"}), Prov("ok", "IN", {"flatrate", "buy"})}
    ELSE IF lim.rich
    THEN {Prov("Timeout", "none", {}), Prov("ConnectionError", "none", {}),
          Prov("ok", "null", {}), Prov("ok", "noresults", {}),
          Prov("ok", "noIN", {}), Prov("ok", "INnull", {}),
          Prov("ok", "IN", {}), Prov("ok", "IN", {"ads"}),
          Prov("ok", "IN", {"rent"}), Prov("ok", "IN", {"flatrate", "buy"})}
    ELSE {Prov("ok", "IN", {"flatrate"})}

Ext(kind, shape, type, id) == [kind |-> kind, shape |-> shape, type |-> type, id |-> id]
tt1 == <<"t", "t", "1">>
tt2 == <<"t", "t", "2">>
ExternalResponses ==
    IF lim.cap THEN {Ext("ok", "dict", "str", tt1)}
    ELSE IF lim.hist
    THEN {Ext("Timeout", "none", "none", <<>>), Ext("ok", "list", "none", <<>>),
          Ext("ok", "dict", "none", <<>>), Ext("ok", "dict", "str", <<>>),
          Ext("ok", "dict", "str", <<"n", "m", "1">>),
          Ext("ok", "dict", "str", tt1), Ext("ok", "dict", "str", tt2)}
    ELSE IF lim.rich
    THEN {Ext("Timeout", "none", "none", <<>>), Ext("ok", "list", "none", <<>>),
          Ext("ok", "dict", "none", <<>>), Ext("ok", "dict", "str", <<>>),
          Ext("ok", "dict", "int", <<>>), Ext("ok", "dict", "str", <<"t">>),
          Ext("ok", "dict", "str", <<"n", "m", "1">>),
          Ext("ok", "dict", "str", tt1), Ext("ok", "dict", "str", tt2)}
    ELSE {Ext("ok", "dict", "str", tt1), Ext("ok", "dict", "str", tt2)}

(***************************************************************************)
(* The state of one thread running fetch_and_cache_movies.                 *)
(***************************************************************************)
NoStop == [kind |-> "none", page |-> 0, acc |-> <<>>]
NoData == Prov("none", "none", {})
NoExt == Ext("none", "none", "none", <<>>)

\* a thread that does not exist (not started yet)
Idle ==
    [pc |-> "idle", page |-> 0, results |-> <<>>, idx |-> 0,
     prov_data |-> NoData, final_movies |-> <<>>, seen_ids |-> {},
     unique_movies |-> <<>>, didx |-> 0, served |-> 0, stop |-> NoStop,
     pages |-> <<>>, trail |-> <<>>]

\* lines 19-27: the thread has started, final_movies = [], page = 1
Started == [Idle EXCEPT !.pc = "page", !.page = 1]

\* the list object a reference of the cache, or of a reader, points to
Deref(ref) == IF ref = 0 THEN <<>> ELSE run[ref].unique_movies

(***************************************************************************)
(* The try/except structure of lines 40-115.  An exception raised in a     *)
(* try body goes to the innermost handler that catches it.                 *)
(***************************************************************************)
\* every exception a request or the handling of its response can raise is
\* a subclass of Exception
ExceptionClasses ==
    {"Timeout", "ConnectionError", "JSONDecodeError", "AttributeError", "TypeError"}

\* faulty variant: the handlers of lines 108-115 skip the page instead of breaking
PageExceptSkips(exc) == "continue"

\* faulty variant: only "except requests.Timeout" is there, line 112 is missing
PageExceptTimeoutOnly(exc) == IF exc = "Timeout" THEN "break" ELSE "raise"

\* lines 108-115: except requests.Timeout / except Exception, both break
PageExcept(exc) ==
    IF exc = "Timeout" THEN "break"
    ELSE IF exc \in ExceptionClasses THEN "break"
    ELSE "raise"

\* faulty variant: the handler of lines 103-106 ends the loop over the pages
ProvExceptBreaks(exc) == "break"

\* lines 103-106: except Exception: continue
ProvExcept(exc) ==
    IF exc \in ExceptionClasses THEN "continue" ELSE PageExcept(exc)

\* faulty variant: the handler of lines 99-101 ends the loop over the pages
ExtExceptBreaks(exc) == "break"

\* lines 99-101: except Exception, then the end of the loop body
ExtExcept(exc) ==
    IF exc \in ExceptionClasses THEN "continue" ELSE ProvExcept(exc)

(***************************************************************************)
(* What the code does with each response.                                  *)
(***************************************************************************)
\* lines 44-49: requests.get raises, or .json() / .get("results") does
DiscoverRaises(resp) ==
    CASE resp.kind = "Timeout" -> "Timeout"
      [] resp.kind = "ConnectionError" -> "ConnectionError"
      [] resp.kind = "NotADict" -> "AttributeError"
      [] OTHER -> "none"

\* lines 68-80: requests.get raises; "results" not in None and
\* "flatrate" in None raise TypeError
ProvidersRaises(resp) ==
    CASE resp.kind = "Timeout" -> "Timeout"
      [] resp.kind = "ConnectionError" -> "ConnectionError"
      [] resp.kind = "ok" /\ resp.shape \in {"null", "INnull"} -> "TypeError"
      [] OTHER -> "none"

\* line 72: "results" in prov_data and "IN" in prov_data["results"]
HasRegion(resp) == resp.shape = "IN"

\* faulty variant: any key of the regional entry counts as a provider category
has_provider_any_key(india_providers) == india_providers # {}

\* line 80
has_provider(india_providers) ==
    \/ "flatrate" \in india_providers
    \/ "buy" \in india_providers
    \/ "rent" \in india_providers

\* lines 90-94: requests.get raises; .get of a list and .startswith of a
\* number raise AttributeError
ExternalRaises(resp) ==
    CASE resp.kind = "Timeout" -> "Timeout"
      [] resp.kind = "ok" /\ resp.shape # "dict" -> "AttributeError"
      [] resp.kind = "ok" /\ resp.type = "int" -> "AttributeError"
      [] OTHER -> "none"

\* str.startswith
startswith(s, prefix) ==
    Len(s) >= Len(prefix) /\ SubSeq(s, 1, Len(prefix)) = prefix

\* faulty variant: the prefix test of line 94 is missing
UsableWithoutPrefix(imdb_id) == imdb_id # <<>>

\* line 94: imdb_id and imdb_id.startswith("tt")
Usable(imdb_id) == imdb_id # <<>> /\ startswith(imdb_id, <<"t", "t">>)

\* faulty variant: line 62 tests the identifier only
LacksIdOnly(movie) == movie.id = 0

\* line 62: not movie_id or not title
LacksField(movie) == movie.id = 0 \/ movie.title = ""

(***************************************************************************)
(* Control transfers inside the pipeline, as functions of a thread state.  *)
(***************************************************************************)
\* "continue" of the loop of line 59, and the end of its body; prov_data
\* is not read again before line 69 assigns it
Continue(s) ==
    [s EXCEPT !.pc = "movie", !.idx = @ + 1, !.prov_data = NoData]

\* "break" of the loop of line 27, then lines 118-119
Break(s) ==
    [s EXCEPT !.pc = "dedup", !.seen_ids = {}, !.unique_movies = <<>>,
              !.didx = 1, !.prov_data = NoData]

\* an exception nobody catches ends the thread
Raise(s) == [s EXCEPT !.pc = "raised"]

Transfer(s, how) ==
    CASE how = "continue" -> Continue(s)
      [] how = "break" -> Break(s)
      [] OTHER -> Raise(s)

\* faulty variant: lines 54-57 are missing, an empty page is iterated like any other
AfterDiscoverNoEmptyCheck(s, resp) ==
    LET exc == DiscoverRaises(resp)
    IN  IF exc # "none" THEN Transfer(s, PageExcept(exc))
        ELSE [s EXCEPT !.pc = "movie", !.results = resp.results, !.idx = 1]

\* lines 44-57, 108-115: the thread after the discover response
AfterDiscover(s, resp) ==
    LET exc == DiscoverRaises(resp)
    IN  IF exc # "none" THEN Transfer(s, PageExcept(exc))
        ELSE IF resp.results = <<>> THEN Break(s)
        ELSE [s EXCEPT !.pc = "movie", !.results = resp.results, !.idx = 1]

\* faulty variant: the loop of line 27 asks for the same page again
AtMovieSamePage(s) ==
    IF s.idx > Len(s.results)
    THEN [s EXCEPT !.pc = "page", !.results = <<>>, !.idx = 0]
    ELSE IF ~s.results[s.idx].isdict
    THEN Transfer(s, PageExcept("AttributeError"))
    ELSE IF LacksField(s.results[s.idx]) THEN Continue(s)
    ELSE [s EXCEPT !.pc = "providers"]

\* lines 59-63: the thread at the head of the loop over the candidates
AtMovie(s) ==
    IF s.idx > Len(s.results)
    THEN [s EXCEPT !.pc = "page", !.page = @ + 1, !.results = <<>>, !.idx = 0]
    ELSE IF ~s.results[s.idx].isdict
    THEN Transfer(s, PageExcept("AttributeError"))
    ELSE IF LacksField(s.results[s.idx]) THEN Continue(s)
    ELSE [s EXCEPT !.pc = "providers"]

\* lines 68-85, 103-106: the thread after the watch-providers response
AfterProviders(s, resp) ==
    LET exc == ProvidersRaises(resp)
    IN  IF exc # "none" THEN Transfer(s, ProvExcept(exc))
        ELSE IF ~HasRegion(resp) THEN Continue(s)
        ELSE IF ~has_provider(resp.keys) THEN Continue(s)
        ELSE [s EXCEPT !.pc = "external", !.prov_data = resp]

\* faulty variant: line 96 inserts the movie at the head of the list
AcceptFront(s, imdb_id) ==
    [s EXCEPT !.final_movies =
        <<[s.results[s.idx] EXCEPT !.imdb_id = imdb_id]>> \o @]

\* lines 95-96: movie["imdb_id"] = imdb_id; final_movies.append(movie)
Accept(s, imdb_id) ==
    [s EXCEPT !.final_movies =
        Append(@, [s.results[s.idx] EXCEPT !.imdb_id = imdb_id])]

\* lines 90-101: the thread after the external-identifiers response
AfterExternal(s, resp) ==
    LET exc == ExternalRaises(resp)
    IN  IF exc # "none" THEN Transfer(s, ExtExcept(exc))
        ELSE IF Usable(resp.id) THEN Continue(Accept(s, resp.id))
        ELSE Continue(s)

\* faulty variant: line 122 tests the provider's numeric id, not the external one
DedupOneByMovieId(s) ==
    LET movie == s.final_movies[s.didx]
    IN  IF movie.id \notin s.seen_ids
        THEN [s EXCEPT !.seen_ids = @ \cup {movie.id},
                       !.unique_movies = Append(@, movie), !.didx = @ + 1]
        ELSE [s EXCEPT !.didx = @ + 1]

\* lines 120-124: one iteration of the deduplication loop
DedupOne(s) ==
    LET movie == s.final_movies[s.didx]
        imdb_id == movie.imdb_id
    IN  IF imdb_id # <<>> /\ imdb_id \notin s.seen_ids
        THEN [s EXCEPT !.seen_ids = @ \cup {imdb_id},
                       !.unique_movies = Append(@, movie), !.didx = @ + 1]
        ELSE [s EXCEPT !.didx = @ + 1]

\* history: how the loop over the pages ended, on which page, and what
\* had been accumulated by then
Note(t, s, kind) ==
    [t EXCEPT !.stop = [kind |-> kind, page |-> s.page, acc |-> s.final_movies]]

\* history: the result list of a discover request that was answered
Paged(t, resp) ==
    IF lim.hist /\ resp.kind = "ok" THEN [t EXCEPT !.pages = Append(@, resp.results)]
    ELSE t

\* history: the candidate the run is done with and the responses to its lookups
Seen(t, s, prov, ext) ==
    IF lim.hist
    THEN [t EXCEPT !.trail =
             Append(@, [movie |-> s.results[s.idx], prov |-> prov, ext |-> ext])]
    ELSE t

(***************************************************************************)
(* The steps of a run.                                                     *)
(***************************************************************************)
Others == <<lim, all_movies_cache, writes, finished, alive, acks, cat>>

\* lines 27-57, 108-115: the discover request of the next page
Discover(r) ==
    /\ run[r].pc = "page"
    /\ run[r].page <= lim.pages
    /\ \E resp \in DiscoverResponses(r) :
         LET s == run[r]
             t == Paged([AfterDiscover(s, resp) EXCEPT
                            !.served = @ + Len(resp.results)], resp)
         IN  run' = [run EXCEPT ![r] =
                 IF DiscoverRaises(resp) # "none" THEN Note(t, s, DiscoverRaises(resp))
                 ELSE IF resp.results = <<>> THEN Note(t, s, "empty")
                 ELSE t]
    /\ UNCHANGED Others

\* line 27: range(1, 301) is exhausted, then lines 118-119
Exhausted(r) ==
    /\ run[r].pc = "page"
    /\ run[r].page > lim.pages
    /\ run' = [run EXCEPT ![r] = Note(Break(run[r]), run[r], "exhausted")]
    /\ UNCHANGED Others

\* lines 59-63: the next candidate of the page, or the next page
NextMovie(r) ==
    /\ run[r].pc = "movie"
    /\ LET s == run[r]
       IN  run' = [run EXCEPT ![r] =
               IF s.idx > Len(s.results) THEN AtMovie(s)
               ELSE IF ~s.results[s.idx].isdict
               THEN Seen(Note(AtMovie(s), s, "candidate"), s, NoData, NoExt)
               ELSE IF AtMovie(s).pc = "providers" THEN AtMovie(s)
               ELSE Seen(AtMovie(s), s, NoData, NoExt)]
    /\ UNCHANGED Others

\* lines 66-85, 103-106: the watch-providers lookup of the candidate
Providers(r) ==
    /\ run[r].pc = "providers"
    /\ \E resp \in ProviderResponses :
         LET t == AfterProviders(run[r], resp)
         IN  run' = [run EXCEPT ![r] =
                 IF t.pc = "external" THEN t ELSE Seen(t, run[r], resp, NoExt)]
    /\ UNCHANGED Others

\* lines 87-101: the external-identifiers lookup of the candidate
External(r) ==
    /\ run[r].pc = "external"
    /\ \E resp \in ExternalResponses :
         run' = [run EXCEPT ![r] =
             Seen(AfterExternal(run[r], resp), run[r], run[r].prov_data, resp)]
    /\ UNCHANGED Others

\* faulty variant: the loop of line 120 appends to the list the global refers to
DedupInPlace(r) ==
    /\ run[r].pc = "dedup"
    /\ run[r].didx <= Len(run[r].final_movies)
    /\ run' = [run EXCEPT ![r] = DedupOne(run[r])]
    /\ all_movies_cache' = r
    /\ UNCHANGED <<lim, writes, finished, alive, acks, cat>>

\* lines 120-124
Dedup(r) ==
    /\ run[r].pc = "dedup"
    /\ run[r].didx <= Len(run[r].final_movies)
    /\ run' = [run EXCEPT ![r] = DedupOne(run[r])]
    /\ UNCHANGED Others

\* faulty variant: the cache is assigned only while it is still the initial list
PublishIfUnset(r) ==
    all_movies_cache' = IF all_movies_cache = 0 THEN r ELSE all_movies_cache

\* faulty variant: an empty list does not replace the cache
PublishUnlessEmpty(r) ==
    all_movies_cache' = IF run[r].unique_movies = <<>> THEN all_movies_cache ELSE r

\* line 126: all_movies_cache = unique_movies
Publish(r) == all_movies_cache' = r

\* faulty variant: line 126 extends the list the cache refers to
InstallMerging(r) ==
    /\ run[r].pc = "dedup"
    /\ run[r].didx > Len(run[r].final_movies)
    /\ IF all_movies_cache = 0
       THEN /\ Publish(r)
            /\ run' = [run EXCEPT ![r].pc = "log"]
       ELSE /\ all_movies_cache' = all_movies_cache
            /\ run' = [run EXCEPT ![r].pc = "log",
                                  ![all_movies_cache].unique_movies =
                                      @ \o run[r].unique_movies]
    /\ writes' = Append(writes, r)
    /\ UNCHANGED <<lim, finished, alive, acks, cat>>

\* the loop of line 120 is over; line 126
Install(r) ==
    /\ run[r].pc = "dedup"
    /\ run[r].didx > Len(run[r].final_movies)
    /\ Publish(r)
    /\ run' = [run EXCEPT ![r].pc = "log"]
    /\ writes' = Append(writes, r)
    /\ UNCHANGED <<lim, finished, alive, acks, cat>>

\* lines 127-128: the closing log line, then the function returns and its
\* locals are gone; the list it installed lives on
Return(r) ==
    /\ run[r].pc = "log"
    /\ run' = [run EXCEPT ![r] =
           [Idle EXCEPT !.pc = "done", !.unique_movies = run[r].unique_movies]]
    /\ finished' = Append(finished, r)
    /\ UNCHANGED <<lim, all_movies_cache, writes, alive, acks, cat>>

RunStep(r) ==
    \/ Discover(r)
    \/ Exhausted(r)
    \/ NextMovie(r)
    \/ Providers(r)
    \/ External(r)
    \/ Dedup(r)
    \/ Install(r)
    \/ Return(r)

InProgress(r) == run[r].pc \notin {"idle", "done", "raised"}

\* faulty variant: the trigger starts a run only when no run is in progress
RefreshWhenQuiet ==
    /\ \A q \in Runs : ~InProgress(q)
    /\ \E r \in Runs :
         /\ run[r].pc = "idle"
         /\ \A q \in Runs : q < r => run[q].pc # "idle"
         /\ run' = [run EXCEPT ![r] = Started]
         /\ alive' = [alive EXCEPT ![r] = {q \in Runs : InProgress(q)}]
    /\ acks' = acks + 1
    /\ UNCHANGED <<lim, all_movies_cache, writes, finished, cat>>

\* lines 183-194: Thread(target=do_refresh).start() (line 193), then the
\* acknowledgment is returned (line 194); the thread is at line 27
Refresh ==
    /\ \E r \in Runs :
         /\ run[r].pc = "idle"
         /\ \A q \in Runs : q < r => run[q].pc # "idle"
         /\ run' = [run EXCEPT ![r] = Started]
         /\ alive' = [alive EXCEPT ![r] = {q \in Runs : InProgress(q)}]
    /\ acks' = acks + 1
    /\ UNCHANGED <<lim, all_movies_cache, writes, finished, cat>>

(***************************************************************************)
(* The catalog endpoint.                                                   *)
(***************************************************************************)
\* faulty variant: line 135 also rejects a movie without a poster
to_stremio_meta_needs_poster(movie) ==
    IF movie.imdb_id = <<>> \/ movie.title = "" \/ movie.poster_path = "" THEN <<>>
    ELSE << [id |-> movie.imdb_id,
             type |-> "movie",
             name |-> movie.title,
             poster |-> <<"https://image.tmdb.org/t/p/w500" \o movie.poster_path>>,
             description |-> movie.overview,
             releaseInfo |-> movie.release_date,
             background |-> IF movie.backdrop_path # ""
                            THEN <<"https://image.tmdb.org/t/p/w780" \o movie.backdrop_path>>
                            ELSE <<>>] >>

\* lines 131-149; None is <<>>, a dict is a one-element sequence
to_stremio_meta(movie) ==
    IF ~movie.isdict THEN <<>>
    ELSE IF movie.imdb_id = <<>> \/ movie.title = "" THEN <<>>
    ELSE << [id |-> movie.imdb_id,
             type |-> "movie",
             name |-> movie.title,
             poster |-> IF movie.poster_path # ""
                        THEN <<"https://image.tmdb.org/t/p/w500" \o movie.poster_path>>
                        ELSE <<>>,
             description |-> movie.overview,
             releaseInfo |-> movie.release_date,
             background |-> IF movie.backdrop_path # ""
                            THEN <<"https://image.tmdb.org/t/p/w780" \o movie.backdrop_path>>
                            ELSE <<>>] >>

NoRequest == [pc |-> "idle", ref |-> 0, i |-> 0, metas |-> <<>>]

\* faulty variant: the endpoint waits until no run is in progress
CatalogStartWhenQuiet ==
    /\ \A r \in Runs : ~InProgress(r)
    /\ cat.pc \in {"idle", "done"}
    /\ cat' = [pc |-> "iter", ref |-> all_movies_cache, i |-> 1, metas |-> <<>>]
    /\ UNCHANGED <<lim, all_movies_cache, run, writes, finished, alive, acks>>

\* line 175: the comprehension takes the list the global refers to
CatalogStart ==
    /\ cat.pc \in {"idle", "done"}
    /\ cat' = [pc |-> "iter", ref |-> all_movies_cache, i |-> 1, metas |-> <<>>]
    /\ UNCHANGED <<lim, all_movies_cache, run, writes, finished, alive, acks>>

\* line 175: one element of the comprehension
CatalogNext ==
    /\ cat.pc = "iter"
    /\ cat.i <= Len(Deref(cat.ref))
    /\ LET meta == to_stremio_meta(Deref(cat.ref)[cat.i])
       IN  cat' = [cat EXCEPT !.i = @ + 1,
                              !.metas = IF meta # <<>> THEN @ \o meta ELSE @]
    /\ UNCHANGED <<lim, all_movies_cache, run, writes, finished, alive, acks>>

\* lines 176-177: the list is exhausted, the response is {"metas": metas}
CatalogReturn ==
    /\ cat.pc = "iter"
    /\ cat.i > Len(Deref(cat.ref))
    /\ cat' = [cat EXCEPT !.pc = "done"]
    /\ UNCHANGED <<lim, all_movies_cache, run, writes, finished, alive, acks>>

Catalog == CatalogStart \/ CatalogNext \/ CatalogReturn

(***************************************************************************)
(* Specifications.                                                         *)
(***************************************************************************)
InitWith(l) ==
    /\ lim = l
    /\ all_movies_cache = 0
    /\ run = [r \in 1 .. l.runs |-> IF r = 1 THEN Started ELSE Idle]
    /\ writes = <<>>
    /\ finished = <<>>
    /\ alive = [r \in 1 .. l.runs |-> {}]
    /\ acks = 0
    /\ cat = NoRequest

\* the start-up run (line 198) against every response of the remote, with
\* catalog requests at any time
Init ==
    InitWith([runs |-> 1, pages |-> LastPage, candidates |-> MaxCandidates,
              rich |-> TRUE, hist |-> FALSE, cap |-> FALSE])

Next ==
    \/ \E r \in Runs : Discover(r)
    \/ \E r \in Runs : Exhausted(r)
    \/ \E r \in Runs : NextMovie(r)
    \/ \E r \in Runs : Providers(r)
    \/ \E r \in Runs : External(r)
    \/ \E r \in Runs : Dedup(r)
    \/ \E r \in Runs : Install(r)
    \/ \E r \in Runs : Return(r)
    \/ CatalogStart
    \/ CatalogNext
    \/ CatalogReturn

Spec == Init /\ [][Next]_vars

\* the start-up run and the runs the refresh trigger starts, overlapping
ConcInit ==
    InitWith([runs |-> ConcRuns, pages |-> ConcLastPage,
              candidates |-> ConcCandidates, rich |-> FALSE, hist |-> FALSE, cap |-> FALSE])

ConcNext ==
    \/ \E r \in Runs : Discover(r)
    \/ \E r \in Runs : Exhausted(r)
    \/ \E r \in Runs : NextMovie(r)
    \/ \E r \in Runs : Providers(r)
    \/ \E r \in Runs : External(r)
    \/ \E r \in Runs : Dedup(r)
    \/ \E r \in Runs : Install(r)
    \/ \E r \in Runs : Return(r)
    \/ Refresh

ConcSpec == ConcInit /\ [][ConcNext]_vars

\* one run against every response, every response remembered
FlowInit ==
    InitWith([runs |-> 1, pages |-> FlowLastPage, candidates |-> FlowCandidates,
              rich |-> TRUE, hist |-> TRUE, cap |-> FALSE])

FlowNext ==
    \/ \E r \in Runs : Discover(r)
    \/ \E r \in Runs : Exhausted(r)
    \/ \E r \in Runs : NextMovie(r)
    \/ \E r \in Runs : Providers(r)
    \/ \E r \in Runs : External(r)
    \/ \E r \in Runs : Dedup(r)
    \/ \E r \in Runs : Install(r)
    \/ \E r \in Runs : Return(r)

FlowSpec == FlowInit /\ [][FlowNext]_vars

\* one run over all the pages of line 27, against a remote that has one
\* movie on every page it returns; each step the run can take is taken in
\* the end (every request returns or fails, the thread is scheduled)
CapInit ==
    InitWith([runs |-> 1, pages |-> PageCap, candidates |-> PageCap,
              rich |-> FALSE, hist |-> FALSE, cap |-> TRUE])

CapNext ==
    \/ \E r \in Runs : Discover(r)
    \/ \E r \in Runs : Exhausted(r)
    \/ \E r \in Runs : NextMovie(r)
    \/ \E r \in Runs : Providers(r)
    \/ \E r \in Runs : External(r)
    \/ \E r \in Runs : Dedup(r)
    \/ \E r \in Runs : Install(r)
    \/ \E r \in Runs : Return(r)

CapSpec == CapInit /\ [][CapNext]_vars /\ WF_vars(RunStep(1))

\* every run, alone against every response or overlapping with others
RunsSpec == (Init \/ ConcInit) /\ [][ConcNext]_vars

(***************************************************************************)
(* Properties.                                                             *)
(***************************************************************************)
Range(f) == {f[i] : i \in DOMAIN f}
Ids(list) == {list[i].imdb_id : i \in DOMAIN list}
Cache == Deref(all_movies_cache)

\* C1: in every reachable state every movie of the cache has a non-empty
\* external identifier starting with "tt" and a non-empty title, and no two
\* movies of the cache have the same external identifier.
C1_CacheWellFormed ==
    \A i \in DOMAIN Cache :
        /\ Len(Cache[i].imdb_id) >= 2
        /\ Cache[i].imdb_id[1] = "t"
        /\ Cache[i].imdb_id[2] = "t"
        /\ Cache[i].title # ""
        /\ \A j \in DOMAIN Cache : j # i => Cache[j].imdb_id # Cache[i].imdb_id

\* a cache of two movies installed by a run that had accepted more
C1_Witness ==
    \E r \in Runs :
        /\ all_movies_cache = r
        /\ run[r].pc = "log"
        /\ Len(Cache) >= 2
        /\ Len(run[r].final_movies) > Len(Cache)

\* the catalog entries the endpoint is to return for a list of movies
Kept(list) == SelectSeq(list, LAMBDA m : m.imdb_id # <<>> /\ m.title # "")
IsEntryOf(meta, m) ==
    /\ meta.id = m.imdb_id
    /\ meta.type = "movie"
    /\ meta.name = m.title
    /\ meta.poster = IF m.poster_path = "" THEN <<>>
                     ELSE <<"https://image.tmdb.org/t/p/w500" \o m.poster_path>>
    /\ meta.description = m.overview
    /\ meta.releaseInfo = m.release_date
    /\ meta.background = IF m.backdrop_path = "" THEN <<>>
                         ELSE <<"https://image.tmdb.org/t/p/w780" \o m.backdrop_path>>
IsCatalogOf(ms, list) ==
    /\ Len(ms) = Len(Kept(list))
    /\ \A i \in DOMAIN ms : IsEntryOf(ms[i], Kept(list)[i])

\* the list of run r is still being built: line 126 has not run
Private(r) == run[r].pc \notin {"log", "done"}
\* the lists that have been the cache: the initial one and the installed ones
Installed == {0} \cup {r \in Runs : ~Private(r)}

\* C2: a catalog request that runs during a refresh iterates over a list
\* that is complete (the initial list or the list a run has installed) and
\* returns the catalog of that whole list; the list a run is building is
\* referred to by nobody else, an installed list never changes, and the
\* cache changes only by the assignment of line 126, to the finished list
\* of the run.
C2_NoPartialSnapshot ==
    /\ [](/\ \A r \in Runs : Private(r) =>
                /\ all_movies_cache # r
                /\ cat.pc # "idle" => cat.ref # r
          /\ cat.pc = "done" =>
                \E ref \in Installed : IsCatalogOf(cat.metas, Deref(ref)))
    /\ [][/\ \A ref \in Installed : Deref(ref)' = Deref(ref)
          /\ all_movies_cache' # all_movies_cache =>
                \E r \in Runs :
                    /\ run[r].pc = "dedup"
                    /\ run[r].didx > Len(run[r].final_movies)
                    /\ run'[r].pc = "log"
                    /\ all_movies_cache' = r]_vars

\* a request answered from the installed list while the run is not over
C2_Witness ==
    /\ cat.pc = "done"
    /\ cat.metas # <<>>
    /\ \E r \in Runs : InProgress(r) /\ cat.ref = r

DiscoverFailures == {"Timeout", "ConnectionError", "AttributeError"}
Stopped(r) == run[r].pc \in {"dedup", "log"}
KeepsAccumulated(r) ==
    /\ run[r].page = run[r].stop.page
    /\ run[r].final_movies = run[r].stop.acc
    /\ run[r].pc = "log" =>
          /\ r \in Range(writes)
          /\ Ids(run[r].stop.acc) \subseteq Ids(run[r].unique_movies)

\* C3: once the discover request of page n has failed or timed out the run
\* is past the loop over the pages (it issues no request any more), still
\* at page n, its accumulated list is what it was when the request was
\* made, and every identifier of that list is in the list it installs.
C3_FailureStopsPagination ==
    \A r \in Runs :
        run[r].stop.kind \in DiscoverFailures => Stopped(r) /\ KeepsAccumulated(r)

\* a failure on a later page, after candidates had been accepted
C3_Witness ==
    \E r \in Runs :
        /\ run[r].stop.kind \in {"Timeout", "ConnectionError"}
        /\ run[r].stop.page >= 2
        /\ run[r].stop.acc # <<>>
        /\ run[r].pc = "log"

\* C4: once the discover request of page n has returned an empty result
\* list the run is past the loop over the pages (no request of any kind
\* follows), and the candidates accepted before are kept and installed.
C4_EmptyPageStopsPagination ==
    \A r \in Runs :
        run[r].stop.kind = "empty" =>
            /\ Stopped(r)
            /\ run[r].stop.page = run[r].page
            /\ KeepsAccumulated(r)

\* an empty page 2 after a page 1 with accepted candidates
C4_Witness ==
    \E r \in Runs :
        /\ run[r].stop = [kind |-> "empty", page |-> 2, acc |-> run[r].final_movies]
        /\ run[r].final_movies # <<>>
        /\ run[r].pc = "log"

\* C5: a run appends a candidate to its accumulated list only at the
\* external-identifiers step, and only when the watch-providers response of
\* that candidate had an entry for IN with flatrate, buy or rent in it.
C5_OnlyAvailableAccepted ==
    [][\A r \in Runs :
          Len(run'[r].final_movies) > Len(run[r].final_movies) =>
              /\ run[r].pc = "external"
              /\ run[r].prov_data.kind = "ok"
              /\ run[r].prov_data.shape = "IN"
              /\ run[r].prov_data.keys \cap {"flatrate", "buy", "rent"} # {}]_vars

\* two candidates with identifier and title were seen, one was accepted
C5_Witness ==
    \E r \in Runs :
        /\ run[r].pc = "movie"
        /\ run[r].idx = 3
        /\ \A i \in 1 .. 2 : ~LacksField(run[r].results[i])
        /\ Len(run[r].final_movies) = 1

\* the movies of a list whose identifier occurs at no earlier position
FirstSeen(list) ==
    LET F[i \in 0 .. Len(list)] ==
            IF i = 0 THEN <<>>
            ELSE IF \A j \in 1 .. i - 1 : list[j].imdb_id # list[i].imdb_id
                 THEN Append(F[i - 1], list[i])
                 ELSE F[i - 1]
    IN  F[Len(list)]

\* C6: the deduplicated list has one entry per external identifier of the
\* accumulated list, each being the first movie of the accumulated list
\* with that identifier, in the order of the accumulated list.
C6_DedupFirstSeen ==
    \A r \in Runs :
        run[r].pc = "log" =>
            /\ run[r].unique_movies = FirstSeen(run[r].final_movies)
            /\ Cardinality(Ids(run[r].final_movies)) = Len(run[r].unique_movies)
            /\ \A i, j \in DOMAIN run[r].unique_movies :
                  i # j => run[r].unique_movies[i].imdb_id # run[r].unique_movies[j].imdb_id

\* a repeated identifier on a later page, between two distinct ones
C6_Witness ==
    \E r \in Runs :
        /\ run[r].pc = "log"
        /\ Len(run[r].final_movies) = 3
        /\ Len(run[r].unique_movies) = 2
        /\ run[r].final_movies[1].imdb_id = run[r].final_movies[3].imdb_id
        /\ run[r].final_movies[1] # run[r].final_movies[3]
        /\ run[r].stop.page >= 3

Pos(seq, x) == CHOOSE i \in DOMAIN seq : seq[i] = x
\* run b was started while run a was in progress, or the other way round
Overlap(a, b) == a \in alive[b] \/ b \in alive[a]
\* runs a and b overlapped, both have returned, nobody else wrote the cache
BothOver(a, b) ==
    /\ a # b
    /\ Overlap(a, b)
    /\ {a, b} \subseteq Range(finished)
    /\ Range(writes) = {a, b}

\* C7, as claimed: once two overlapping runs have both returned, the cache
\* is the list of the one that returned last.
C7_LastToFinishWins ==
    \A a, b \in Runs :
        BothOver(a, b) /\ Pos(finished, a) < Pos(finished, b) =>
            Cache = run[b].unique_movies

\* C7, amended: once two overlapping runs have both returned, the cache is
\* the list of the one that executed the assignment of line 126 last,
\* whichever started first; the list the other one assigned is overwritten.
C7_LastToAssignWins ==
    \A a, b \in Runs :
        BothOver(a, b) /\ Pos(writes, a) < Pos(writes, b) =>
            /\ all_movies_cache = b
            /\ Cache = run[b].unique_movies

\* the run started first assigned last and its different list is the cache
C7_Witness ==
    \E a, b \in Runs :
        /\ a < b
        /\ BothOver(a, b)
        /\ writes = <<b, a>>
        /\ all_movies_cache = a
        /\ run[a].unique_movies # run[b].unique_movies

\* C8: no run ever ends by an exception: a run in progress always has a
\* next step, and a run that is over has assigned the cache and returned.
C8_NeverRaises ==
    \A r \in Runs :
        /\ run[r].pc # "raised"
        /\ InProgress(r) => ENABLED RunStep(r)
        /\ run[r].pc = "done" => r \in Range(writes) /\ r \in Range(finished)

\* a run that met a failed discover request on a later page has replaced
\* the cache and is about to return
C8_Witness ==
    \E r \in Runs :
        /\ run[r].pc = "log"
        /\ run[r].stop.kind = "ConnectionError"
        /\ run[r].stop.page >= 2
        /\ all_movies_cache = r
        /\ ENABLED Return(r)

\* a candidate that is no object, or lacks an identifier or a title
Malformed(movie) == ~movie.isdict \/ movie.id = 0 \/ movie.title = ""

\* C9: when the run reaches a malformed candidate it drops that candidate
\* only: it goes on to the next candidate of the same page, with the
\* accumulated list unchanged.
C9_MalformedCandidateDroppedAlone ==
    [][\A r \in Runs :
          (/\ run[r].pc = "movie"
           /\ run[r].idx <= Len(run[r].results)
           /\ Malformed(run[r].results[run[r].idx])
           /\ run'[r] # run[r]) =>
              /\ run'[r].pc = "movie"
              /\ run'[r].idx = run[r].idx + 1
              /\ run'[r].results = run[r].results
              /\ run'[r].page = run[r].page
              /\ run'[r].final_movies = run[r].final_movies]_vars

\* C10: the catalog endpoint never fails and can always go on; what it has
\* built is the catalog, in order, of the part of the list it has been
\* through, movies lacking identifier or title left out; its response is
\* the catalog of the whole list, the empty one for an empty cache.
C10_CatalogIsProjection ==
    /\ cat.pc \in {"idle", "iter", "done"}
    /\ cat.pc = "iter" =>
          /\ ENABLED Catalog
          /\ IsCatalogOf(cat.metas, SubSeq(Deref(cat.ref), 1, cat.i - 1))
    /\ cat.pc = "done" =>
          /\ IsCatalogOf(cat.metas, Deref(cat.ref))
          /\ Deref(cat.ref) = <<>> => cat.metas = <<>>

\* a response of two entries, one with a poster and one without
C10_Witness ==
    /\ cat.pc = "done"
    /\ Len(cat.metas) = 2
    /\ cat.metas[1].poster = <<>>
    /\ cat.metas[2].poster # <<>>

\* the runs the refresh trigger has started (run 1 is the start-up run)
Triggered == {r \in Runs : r > 1 /\ run[r].pc # "idle"}
Running == {r \in Runs : InProgress(r)}

\* C11: the refresh trigger has returned one acknowledgment per run it has
\* started, whatever the position of that run; while a thread can still be
\* created the trigger can act, whatever the other runs are doing; its
\* step returns the acknowledgment with the run it started at the head of
\* the loop over the pages and every other run where it was.
C11_RefreshDoesNotWait ==
    /\ [](/\ acks = Cardinality(Triggered)
          /\ (\E r \in Runs : run[r].pc = "idle") => ENABLED Refresh)
    /\ [][acks' # acks =>
            /\ acks' = acks + 1
            /\ \E r \in Runs :
                  /\ run[r].pc = "idle"
                  /\ run'[r] = Started
                  /\ InProgress(r)'
                  /\ alive'[r] = Running
                  /\ \A q \in Runs \ {r} : run'[q] = run[q]]_vars

\* the trigger has acknowledged a run that it started while the start-up
\* run was in progress, and both are still in progress
C11_Witness ==
    /\ acks >= 1
    /\ \E a, b \in Running : a < b /\ a \in alive[b]

\* the candidates of the pages a run was given, in the order of discovery
Flatten(pp) ==
    LET F[i \in 0 .. Len(pp)] == IF i = 0 THEN <<>> ELSE F[i - 1] \o pp[i]
    IN  F[Len(pp)]

\* no lookup of run r timed out or failed
NoLookupFailed(r) ==
    \A i \in DOMAIN run[r].trail :
        /\ run[r].trail[i].prov.kind \in {"none", "ok"}
        /\ run[r].trail[i].ext.kind \in {"none", "ok"}

\* a candidate with identifier and title, whose watch-providers response
\* has flatrate, buy or rent for IN and whose external identifier is a
\* string starting with "tt"
Eligible(e) ==
    /\ e.movie.isdict
    /\ e.movie.id # 0
    /\ e.movie.title # ""
    /\ e.prov.kind = "ok"
    /\ e.prov.shape = "IN"
    /\ e.prov.keys \cap {"flatrate", "buy", "rent"} # {}
    /\ e.ext.kind = "ok"
    /\ e.ext.shape = "dict"
    /\ e.ext.type = "str"
    /\ Len(e.ext.id) >= 2
    /\ e.ext.id[1] = "t"
    /\ e.ext.id[2] = "t"

\* the eligible candidates, in order, each with its external identifier
Resolved(trail) ==
    LET el == SelectSeq(trail, Eligible)
    IN  [i \in DOMAIN el |-> [el[i].movie EXCEPT !.imdb_id = el[i].ext.id]]

\* C12: when the loop over the pages has ended on an empty page and no
\* lookup has failed, the run has been through every candidate of every
\* page in the order of discovery, and the cache it installs is the
\* eligible candidates, each with its external identifier, in that order,
\* the first one kept of those with the same identifier.
C12_CacheIsEligibleFirstSeen ==
    \A r \in Runs :
        (run[r].pc = "log" /\ run[r].stop.kind = "empty" /\ NoLookupFailed(r)) =>
            /\ [i \in DOMAIN run[r].trail |-> run[r].trail[i].movie]
                   = Flatten(run[r].pages)
            /\ all_movies_cache = r
            /\ Cache = FirstSeen(Resolved(run[r].trail))

\* candidates 10 and 20 on page 1 and an empty page 2; only 10 has "rent"
\* for IN and an identifier starting with "tt": the cache is that one movie
C12_Witness ==
    \E r \in Runs :
        /\ run[r].pc = "log"
        /\ run[r].stop.kind = "empty"
        /\ NoLookupFailed(r)
        /\ run[r].pages = << <<MovieA, MovieB>>, <<>> >>
        /\ run[r].trail[1].prov = Prov("ok", "IN", {"rent"})
        /\ run[r].trail[1].ext = Ext("ok", "dict", "str", tt1)
        /\ ~Eligible(run[r].trail[2])
        /\ Cache = <<[MovieA EXCEPT !.imdb_id = tt1]>>

\* run r takes a step that ends its dealing with a candidate
DoneWith(r) == Len(run'[r].trail) = Len(run[r].trail) + 1
Last(seq) == seq[Len(seq)]
\* the step leaves the candidate out and moves to the next one of the page
SkipsCandidate(r) ==
    /\ Last(run'[r].trail).movie = run[r].results[run[r].idx]
    /\ run'[r].pc = "movie"
    /\ run'[r].idx = run[r].idx + 1
    /\ run'[r].results = run[r].results
    /\ run'[r].page = run[r].page
    /\ run'[r].final_movies = run[r].final_movies
    /\ run'[r].stop = NoStop

\* the watch-providers request failed or timed out, or its body is not an
\* object
LookupFailed(prov) ==
    prov.kind \in {"Timeout", "ConnectionError"} \/ prov.shape \in {"null", "INnull"}

\* C13: the step of a run whose watch-providers lookup fails or times out
\* leaves the loop over the pages running: the run is at the next
\* candidate of the same page, with the same accumulated list, and no
\* external-identifiers request is made for the candidate.
C13_ProvidersErrorSkipsCandidate ==
    [][\A r \in Runs :
          (/\ run[r].pc = "providers"
           /\ DoneWith(r)
           /\ LookupFailed(Last(run'[r].trail).prov)) =>
              /\ SkipsCandidate(r)
              /\ Last(run'[r].trail).ext = NoExt]_vars

\* after a failed lookup of the first candidate of page 1 the run accepted
\* the next candidate of that page and made the discover request of page 2
C13_Witness ==
    \E r \in Runs :
        /\ Len(run[r].trail) = 2
        /\ LookupFailed(run[r].trail[1].prov)
        /\ Eligible(run[r].trail[2])
        /\ Len(run[r].final_movies) = 1
        /\ Len(run[r].pages) = 2
        /\ run[r].pages[1] = <<run[r].trail[1].movie, run[r].trail[2].movie>>

\* the external-identifiers request failed or timed out, its body is not an
\* object, or the identifier is missing, empty, not a string or does not
\* start with "tt"
Unresolved(ext) ==
    \/ ext.kind # "ok"
    \/ ext.shape # "dict"
    \/ ext.type # "str"
    \/ Len(ext.id) < 2
    \/ SubSeq(ext.id, 1, 2) # <<"t", "t">>

\* C14: the step of a run whose external-identifiers lookup fails or gives
\* no identifier starting with "tt" appends nothing to the accumulated
\* list and leaves the loop over the pages running: the run is at the
\* next candidate of the same page.
C14_ExternalErrorDropsCandidate ==
    [][\A r \in Runs :
          (/\ run[r].pc = "external"
           /\ DoneWith(r)
           /\ Unresolved(Last(run'[r].trail).ext)) =>
              SkipsCandidate(r)]_vars

\* the only candidate of page 1 had no usable identifier or a failed
\* lookup, and the run went on to page 2 and accepted its candidate
C14_Witness ==
    \E r \in Runs :
        /\ Len(run[r].trail) = 2
        /\ run[r].trail[1].ext # NoExt
        /\ Unresolved(run[r].trail[1].ext)
        /\ Eligible(run[r].trail[2])
        /\ Len(run[r].final_movies) = 1
        /\ run[r].pages = << <<run[r].trail[1].movie>>, <<run[r].trail[2].movie>> >>

\* the candidate run r is dealing with
Current(r) == run[r].results[run[r].idx]
\* a watch-providers response with flatrate, buy or rent for IN
Available(prov) ==
    /\ prov.kind = "ok"
    /\ prov.shape = "IN"
    /\ prov.keys \cap {"flatrate", "buy", "rent"} # {}

\* C15: a run can make a watch-providers or an external-identifiers
\* request only for a candidate that has an identifier and a title, and an
\* external-identifiers request only while it holds the watch-providers
\* response of that candidate, which has flatrate, buy or rent for IN; it
\* comes to the watch-providers request from the head of the loop and to
\* the external-identifiers request from the watch-providers request of
\* the same candidate.
C15_LookupsOrderedAndGated ==
    /\ [](\A r \in Runs :
            /\ (ENABLED Providers(r) \/ ENABLED External(r)) =>
                  /\ run[r].idx \in DOMAIN run[r].results
                  /\ ~Malformed(Current(r))
            /\ ENABLED Providers(r) => run[r].prov_data = NoData
            /\ ENABLED External(r) => Available(run[r].prov_data))
    /\ [][\A r \in Runs :
            /\ (run'[r].pc = "providers" /\ run[r].pc # "providers") =>
                  /\ run[r].pc = "movie"
                  /\ Current(r)' = Current(r)
            /\ (run'[r].pc = "external" /\ run[r].pc # "external") =>
                  /\ run[r].pc = "providers"
                  /\ Current(r)' = Current(r)
                  /\ run'[r].page = run[r].page
                  /\ run'[r].idx = run[r].idx]_vars

\* the first candidate of the page lacked a field and was passed over
\* without a request; the second one is at its external-identifiers request
C15_Witness ==
    \E r \in Runs :
        /\ ENABLED External(r)
        /\ run[r].idx = 2
        /\ run[r].results[1].isdict
        /\ LacksField(run[r].results[1])
        /\ run[r].served = 2
        /\ run[r].final_movies = <<>>

\* C16: a run asks for page 1 first and never for a page above 300; the
\* request of a page is made once, and the run comes to a request only
\* from the end of the page before, for the next page number; when every
\* step it can take is taken in the end, the run returns, having replaced
\* the cache once; past page 300 its next step leads to that replacement.
C16_RunTerminates ==
    /\ [](\A r \in Runs :
            /\ run[r].pc = "page" => run[r].page \in 1 .. PageCap + 1
            /\ (run[r].pc = "page" /\ run[r].served = 0) => run[r].page = 1
            /\ ENABLED Discover(r) => run[r].page \in 1 .. PageCap
            /\ (run[r].pc = "page" /\ run[r].page = PageCap + 1) =>
                  ENABLED Exhausted(r))
    /\ [][\A r \in Runs :
            /\ (run[r].pc = "page" /\ run'[r] # run[r]) =>
                  /\ run'[r].pc \in {"movie", "dedup"}
                  /\ run'[r].page = run[r].page
            /\ (run'[r].pc = "page" /\ run[r].pc # "page") =>
                  /\ run[r].pc = "movie"
                  /\ run[r].results # <<>>
                  /\ run'[r].page = run[r].page + 1
            /\ run[r].pc \in {"providers", "external"} =>
                  run'[r].page = run[r].page]_vars
    /\ <>(run[1].pc = "done" /\ writes = <<1>> /\ all_movies_cache = 1)

\* the run has been through the pages 1 to 300, each with a movie, and has
\* replaced the cache
C16_Witness ==
    /\ run[1].pc = "log"
    /\ run[1].stop.kind = "exhausted"
    /\ run[1].stop.page = PageCap + 1
    /\ run[1].served = PageCap
    /\ Len(run[1].final_movies) = PageCap
    /\ all_movies_cache = 1
    /\ Len(Cache) = 1

\* what a catalog request does while runs are in progress, apart from what
\* it returns before the first cache replacement
ServesDuringRuns ==
    /\ []((\E r \in Runs : InProgress(r)) =>
            /\ ENABLED Catalog
            /\ cat.pc = "iter" =>
                  /\ cat.i \in 1 .. Len(Deref(cat.ref)) + 1
                  /\ ENABLED (CatalogNext \/ CatalogReturn)
            /\ cat.pc # "idle" => cat.ref \in Installed
            /\ cat.pc = "done" => IsCatalogOf(cat.metas, Deref(cat.ref)))
    /\ [][cat' # cat =>
            /\ run' = run
            /\ all_movies_cache' = all_movies_cache
            /\ (cat'.pc = "iter" /\ cat.pc # "iter") =>
                  cat'.ref = all_movies_cache]_vars

\* C17, as claimed: while runs are in progress a catalog request can
\* always take its next step, needs no step of a run, reads the list the
\* cache refers to when it starts and returns the catalog of that list;
\* as long as no run has returned, the cache and every response are empty.
C17_EmptyUntilARunReturns ==
    /\ ServesDuringRuns
    /\ [](finished = <<>> =>
            /\ Cache = <<>>
            /\ cat.pc = "done" => cat.metas = <<>>)

\* C17, amended: the same, the cache and every response being empty as
\* long as no run has executed the assignment of line 126.
C17_EmptyUntilARunAssigns ==
    /\ ServesDuringRuns
    /\ [](writes = <<>> =>
            /\ all_movies_cache = 0
            /\ Cache = <<>>
            /\ cat.pc = "done" => cat.metas = <<>>)

\* a request was answered with the empty catalog while the run, which had
\* accepted a movie already, was waiting for a lookup
C17_Witness ==
    \E r \in Runs :
        /\ run[r].pc \in {"providers", "external"}
        /\ run[r].final_movies # <<>>
        /\ writes = <<>>
        /\ cat.pc = "done"
        /\ cat.metas = <<>>

\* how many times run r has assigned the cache
Assignments(r) == Cardinality({i \in DOMAIN writes : writes[i] = r})
\* the discover request of page 1 of run r failed or timed out
FailedAtOnce(r) ==
    run[r].stop.kind \in DiscoverFailures /\ run[r].stop.page = 1

\* C18: a run assigns the cache when its deduplication is over, once, and
\* then only returns: it has assigned once when it is at its closing log
\* line or has returned, never before; the assignment makes the cache the
\* deduplicated list of what the run accumulated, whatever ended its loop
\* over the pages, and nothing else changes the cache; the list of a run
\* whose discover request of page 1 failed or timed out is empty and
\* replaces whatever the cache was.
C18_WritesOnceAtTheEnd ==
    /\ [](\A r \in Runs :
            /\ Assignments(r) = IF run[r].pc \in {"log", "done"} THEN 1 ELSE 0
            /\ run[r].pc = "log" =>
                  /\ run[r].unique_movies = FirstSeen(run[r].final_movies)
                  /\ FailedAtOnce(r) => run[r].unique_movies = <<>>
                  /\ ENABLED Return(r)
                  /\ ~ENABLED (Discover(r) \/ Exhausted(r) \/ NextMovie(r)
                                 \/ Providers(r) \/ External(r) \/ Dedup(r)
                                 \/ Install(r)))
    /\ [][/\ \A r \in Runs :
               /\ (run[r].pc # "log" /\ run'[r].pc = "log") =>
                     /\ run[r].stop.kind # "none"
                     /\ writes' = Append(writes, r)
                     /\ all_movies_cache' = r
                     /\ Cache' = run[r].unique_movies
                     /\ FailedAtOnce(r) => Cache' = <<>>
               /\ (run[r].pc = "log" /\ run'[r] # run[r]) =>
                     /\ run'[r].pc = "done"
                     /\ run'[r].unique_movies = run[r].unique_movies
                     /\ all_movies_cache' = all_movies_cache
          /\ (all_movies_cache' # all_movies_cache \/ writes' # writes) =>
               \E r \in Runs : run[r].pc = "dedup" /\ run'[r].pc = "log"]_vars

\* a run has installed a movie and returned; a run started afterwards met
\* a timeout on page 1 and has replaced the cache with its empty list
C18_Witness ==
    \E a, b \in Runs :
        /\ writes = <<a, b>>
        /\ a \in Range(finished)
        /\ alive[b] = {}
        /\ run[a].unique_movies # <<>>
        /\ run[b].pc = "log"
        /\ FailedAtOnce(b)
        /\ all_movies_cache = b
        /\ Cache = <<>>

C20_CatalogOmitsNothing ==
    (cat.pc = "done" /\ cat.ref # 0) =>
        /\ ~Private(cat.ref)
        /\ Len(cat.metas) = Len(Deref(cat.ref))
        /\ \A i \in DOMAIN cat.metas :
              /\ cat.metas[i].id = Deref(cat.ref)[i].imdb_id
              /\ cat.metas[i].name = Deref(cat.ref)[i].title
        /\ \A i, j \in DOMAIN cat.metas :
              cat.metas[i].id = cat.metas[j].id => i = j

\* the response for the list of a run that had accepted three movies, two
\* of them with the same identifier: two entries, one without a poster
C20_Witness ==
    /\ cat.pc = "done"
    /\ cat.ref # 0
    /\ run[cat.ref].pc = "log"
    /\ Len(run[cat.ref].final_movies) = 3
    /\ Len(Deref(cat.ref)) = 2
    /\ Len(cat.metas) = 2
    /\ \E i \in DOMAIN cat.metas : cat.metas[i].poster = <<>>

====
